---- MODULE Spec2Model ----
(***************************************************************************)
(* A model of joyboy_AI.py: the Learning Cache (the sqlite table "tasks"   *)
(* and the generated_scripts directory), the Execution Engine              *)
(* (execute_script_text and the run_plan routine it calls), the Fuzzy      *)
(* Locator of the generated program and the Action Parser                  *)
(* (simple_plan_from_task, find_action_verb).                              *)
(***************************************************************************)
EXTENDS Integers, Sequences, FiniteSets, TLC

VARIABLES
    rows,        \* the rows of table tasks
    seq,         \* sqlite_sequence of tasks: the largest id ever given (AUTOINCREMENT)
    files,       \* generated_scripts: file name token -> program text
    clock,       \* the wall clock, in seconds
    last,        \* the last Learning Cache call: its arguments, how it ended, a bit that flips at each call
    pc,          \* where execute_script_text is: "idle", "load", "create", "run", "quit", "return", "returned"
    script,      \* its script_text
    headless,    \* its headless
    session,     \* the browser session: "none", "open", "closed", "quit_failed"
    ctorCalls,   \* calls of webdriver.Firefox in this run
    quitCalls,   \* calls of driver.quit in this run
    stepIdx,     \* the step of the plan run_plan is at
    steps,       \* what each step of run_plan did
    entry,       \* how ns["run_plan"](driver) ended ("none", "returned", "raised") and what it returned
    success,     \* the local success: "unset", "True", "False"
    result,      \* what execute_script_text gave its caller: "none", "True", "False", "raised"
    locDescriptor, \* the descriptor find_element_fuzzy is called with
    locPage,     \* the page it is called on
    locFound,    \* what it returned: "unset" before the call, an element or "None"
    inTask,      \* the task_text simple_plan_from_task is called with
    inBase,      \* its base_url
    parseDone,   \* whether it has returned
    parsedClauses, \* the stripped chunks that are not empty
    parsedVerbs, \* what find_action_verb returned for each
    rawPlan,     \* plan, before the consecutive opens are compressed
    parsedPlan,  \* cleaned, the plan returned
    mpc,         \* where main_loop is: "prompt", "running_saved", "running_new", "save", "exited", "crashed"
    mtask,       \* task, the task text of this iteration of main_loop
    runs         \* per task, the runs that returned while the table held a row for it

cacheVars == <<rows, seq, files, clock, last>>

engineVars == <<pc, script, headless, session, ctorCalls, quitCalls, stepIdx, steps,
                entry, success, result>>

locatorVars == <<locDescriptor, locPage, locFound>>

parserVars == <<inTask, inBase, parseDone, parsedClauses, parsedVerbs, rawPlan,
                parsedPlan>>

mainVars == <<mpc, mtask, runs>>

vars == <<rows, seq, files, clock, last, pc, script, headless, session, ctorCalls,
          quitCalls, stepIdx, steps, entry, success, result, locDescriptor, locPage,
          locFound, inTask, inBase, parseDone, parsedClauses, parsedVerbs, rawPlan,
          parsedPlan, mpc, mtask, runs>>

(***************************************************************************)
(* Bounds.                                                                 *)
(***************************************************************************)
MaxCount == 2          \* the outcomes recorded in the table stop here
MaxId == 2             \* ids given by AUTOINCREMENT stop here
MaxClock == 1          \* the clock, in seconds, stops here
MaxFragments == 3      \* the fragments a task text is made of

(***************************************************************************)
(* Python values: a str is a sequence of one-character strings.            *)
(***************************************************************************)
None == [t |-> "None", s |-> <<>>, n |-> 0]
PyStr(chars) == [t |-> "str", s |-> chars, n |-> 0]
PyInt(k) == [t |-> "int", s |-> <<>>, n |-> k]
PyTrue == [t |-> "bool", s |-> <<>>, n |-> 1]
PyFalse == [t |-> "bool", s |-> <<>>, n |-> 0]

\* bool(x) for the values of the model
Truthy(x) ==
    CASE x.t = "None" -> FALSE
      [] x.t = "str" -> x.s # <<>>
      [] x.t = "int" -> x.n # 0
      [] x.t = "bool" -> x.n # 0

(***************************************************************************)
(* Strings. A character is a one-character string; "I-dot" is U+0130, the  *)
(* one character str.lower() turns into two: "i" and "dot-above" (U+0307). *)
(***************************************************************************)
UpperCase == <<"A", "B", "C", "D", "E", "F", "G", "H", "I", "J", "K", "L", "M", "N", "O", "P", "Q", "R", "S", "T", "U", "V", "W", "X", "Y", "Z">>
LowerCase == <<"a", "b", "c", "d", "e", "f", "g", "h", "i", "j", "k", "l", "m", "n", "o", "p", "q", "r", "s", "t", "u", "v", "w", "x", "y", "z">>
Digits == <<"0", "1", "2", "3", "4", "5", "6", "7", "8", "9">>

Range(f) == {f[i] : i \in DOMAIN f}

IsUpper(c) == c \in Range(UpperCase)
IsLetter(c) == c \in Range(UpperCase) \cup Range(LowerCase)
IsDigit(c) == c \in Range(Digits)

\* str.isspace() of a character
IsSpace(c) == c \in {" ", "\t", "\n"}

\* \w of re on str: a letter, a digit or "_" (U+0130 is a letter, U+0307 a mark)
IsWord(c) == IsLetter(c) \/ IsDigit(c) \/ c = "_" \/ c = "I-dot"

\* str.lower() of one character
LowerChar(c) ==
    IF IsUpper(c) THEN <<LowerCase[CHOOSE i \in DOMAIN UpperCase : UpperCase[i] = c]>>
    ELSE IF c = "I-dot" THEN <<"i", "dot-above">>
    ELSE <<c>>

\* str.lower()
RECURSIVE Lower(_)
Lower(str) ==
    IF str = <<>> THEN <<>> ELSE LowerChar(Head(str)) \o Lower(Tail(str))

\* str[from:] with from counted from 0; past the end it is ""
SliceFrom(str, from) == SubSeq(str, from + 1, Len(str))

\* str.strip()
RECURSIVE LStrip(_)
LStrip(str) ==
    IF str # <<>> /\ IsSpace(Head(str)) THEN LStrip(Tail(str)) ELSE str

RECURSIVE RStrip(_)
RStrip(str) ==
    IF str # <<>> /\ IsSpace(str[Len(str)])
    THEN RStrip(SubSeq(str, 1, Len(str) - 1)) ELSE str

Strip(str) == RStrip(LStrip(str))

\* sub occurs in str at index i, counted from 0
OccursAt(str, sub, i) ==
    /\ i + Len(sub) <= Len(str)
    /\ SubSeq(str, i + 1, i + Len(sub)) = sub

\* sub in str
In(sub, str) == \E i \in 0..Len(str) : OccursAt(str, sub, i)

\* str.find(sub), for sub in str
Find(str, sub) == CHOOSE i \in 0..Len(str) :
    /\ OccursAt(str, sub, i)
    /\ \A j \in 0..(i - 1) : ~OccursAt(str, sub, j)

\* len(str.split()): the runs of characters that are no whitespace
RECURSIVE SplitWords(_)
SplitWords(str) ==
    LET s0 == LStrip(str)
        n == IF \E i \in 1..Len(s0) : IsSpace(s0[i])
             THEN (CHOOSE i \in 1..Len(s0) :
                      IsSpace(s0[i]) /\ \A j \in 1..(i - 1) : ~IsSpace(s0[j])) - 1
             ELSE Len(s0)
    IN IF s0 = <<>> THEN <<>>
       ELSE <<SubSeq(s0, 1, n)>> \o SplitWords(SubSeq(s0, n + 1, Len(s0)))

(***************************************************************************)
(* Program texts. A text is the output of generate_script_from_plan for a  *)
(* plan, or a text that came from elsewhere (upsert and run take any       *)
(* string): one that fails to compile or exec, one that defines no         *)
(* run_plan, one whose run_plan does what its author wrote.                *)
(***************************************************************************)
Step(a, t, v) == [action |-> a, target |-> t, value |-> v]

generate_script_from_plan(steps_) == [origin |-> "generated", plan |-> steps_]

ForeignText(what) == [origin |-> what, plan |-> <<>>]

PlanA == <<Step("open", PyStr(<<"u">>), None), Step("click", PyStr(<<"o","k">>), None)>>
PlanB == <<Step("type", PyStr(<<"e","m","a","i","l">>), PyStr(<<"a">>)), Step("submit", None, None)>>

CacheTexts == {generate_script_from_plan(PlanA), generate_script_from_plan(PlanB)}

TaskTexts == {"book exam", "login"}

(***************************************************************************)
(* Learning Cache.                                                         *)
(***************************************************************************)
\* f"script_{int(time.time())}.py": the clock's second names the file
FileToken(now) == now

\* SELECT ... FROM tasks WHERE task_text=? LIMIT 1
load_script_from_db(rs, task_text) ==
    IF \E r \in rs : r.task_text = task_text
    THEN {CHOOSE r \in rs : r.task_text = task_text}
    ELSE {}

\* COALESCE((SELECT col FROM tasks WHERE task_text=?), 0)
CarriedCountReset(rs, task_text, col) == 0

CarriedCount(rs, task_text, col) ==
    IF \E r \in rs : r.task_text = task_text
    THEN (CHOOSE r \in rs : r.task_text = task_text)[col]
    ELSE 0

\* task_text TEXT UNIQUE with OR REPLACE: the rows in conflict are deleted
Conflicting(rs, task_text) == {r \in rs : r.task_text = task_text}

\* INSERT OR REPLACE INTO tasks (...) VALUES (...): the values are computed
\* on the table as it is, then the conflicting rows go and the row comes
InsertOrReplace(rs, id, task_text, path, script_text, now) ==
    LET row == [id |-> id,
                task_text |-> task_text,
                script_path |-> path,
                script_text |-> script_text,
                last_used |-> now,
                success_count |-> CarriedCount(rs, task_text, "success_count"),
                fail_count |-> CarriedCount(rs, task_text, "fail_count")]
    IN (rs \ Conflicting(rs, task_text)) \cup {row}

\* col = "success_count" if success else "fail_count"
StatsColumnSwapped(ok) == IF ok THEN "fail_count" ELSE "success_count"

StatsColumn(ok) == IF ok THEN "success_count" ELSE "fail_count"

\* UPDATE tasks SET col = col + 1, last_used = ? WHERE task_text = ?
UpdateOrInsert(rs, task_text, col, now) ==
    IF \E r \in rs : r.task_text = task_text
    THEN {IF r.task_text = task_text
          THEN [r EXCEPT ![col] = @ + 1, !.last_used = now]
          ELSE r : r \in rs}
    ELSE rs \cup {[[id |-> 0, task_text |-> task_text, script_path |-> 0,
                    script_text |-> ForeignText("no_run_plan"), last_used |-> now,
                    success_count |-> 0, fail_count |-> 0] EXCEPT ![col] = 1]}

UpdateWhere(rs, task_text, col, now) ==
    {IF r.task_text = task_text
     THEN [r EXCEPT ![col] = @ + 1, !.last_used = now]
     ELSE r : r \in rs}

\* the outcomes recorded in the table
RECURSIVE Recorded(_)
Recorded(rs) ==
    IF rs = {} THEN 0
    ELSE LET r == CHOOSE x \in rs : TRUE
         IN r.success_count + r.fail_count + Recorded(rs \ {r})

Call(op, task_text, script_text, ok, outcome) ==
    [op |-> op, task_text |-> task_text, script_text |-> script_text,
     success |-> ok, outcome |-> outcome, serial |-> (last.serial + 1) % 2]

\* save_script_to_db(con, task_text, script_text). fault is what the
\* environment does to it: "file" fails open/write (the exception leaves the
\* function), "db" fails execute/commit (caught and printed)
save_script_to_db(task_text, script_text, fault) ==
    LET file_name == FileToken(clock)
    IN  /\ seq < MaxId
        /\ IF fault = "file"
           THEN /\ UNCHANGED <<rows, seq, files>>
                /\ last' = Call("save", task_text, script_text, FALSE, "raised")
           ELSE /\ files' = [p \in DOMAIN files \cup {file_name} |->
                                IF p = file_name THEN script_text ELSE files[p]]
                /\ IF fault = "db"
                   THEN /\ UNCHANGED <<rows, seq>>
                        /\ last' = Call("save", task_text, script_text, FALSE, "db_error")
                   ELSE /\ rows' = InsertOrReplace(rows, seq + 1, task_text, file_name,
                                                   script_text, clock)
                        /\ seq' = seq + 1
                        /\ last' = Call("save", task_text, script_text, FALSE, "ok")
        /\ UNCHANGED <<clock, engineVars, locatorVars, parserVars>>

\* update_task_stats(con, task_text, success), ok its success. fault "db" fails execute or
\* commit: nothing catches it
update_task_stats(task_text, ok, fault) ==
    /\ Recorded(rows) < MaxCount
    /\ IF fault = "db"
       THEN /\ UNCHANGED rows
            /\ last' = Call("stats", task_text, ForeignText("none"), ok, "raised")
       ELSE /\ rows' = UpdateWhere(rows, task_text, StatsColumn(ok), clock)
            /\ last' = Call("stats", task_text, ForeignText("none"), ok, "ok")
    /\ UNCHANGED <<seq, files, clock, engineVars, locatorVars, parserVars>>

InitCache ==
    /\ rows = {}
    /\ seq = 0
    /\ files = <<>>
    /\ clock = 0
    /\ last = [op |-> "none", task_text |-> "", script_text |-> ForeignText("none"),
               success |-> FALSE, outcome |-> "none", serial |-> 0]

\* upsert and recordOutcome called by any caller, the store working
Upsert ==
    /\ \E T \in TaskTexts, S \in CacheTexts : save_script_to_db(T, S, "none")
    /\ UNCHANGED mainVars

RecordOutcome ==
    /\ \E T \in TaskTexts, ok \in BOOLEAN : update_task_stats(T, ok, "none")
    /\ UNCHANGED mainVars

Tick ==
    /\ clock < MaxClock
    /\ clock' = clock + 1
    /\ UNCHANGED <<rows, seq, files, last, engineVars, locatorVars, parserVars,
                   mainVars>>

(***************************************************************************)
(* The Fuzzy Locator of the generated program. A page says, for each of    *)
(* the seven locators tried with d = descriptor.strip(), what              *)
(* driver.find_element does: it returns an element or raises.              *)
(***************************************************************************)
Strategies == <<"By.ID", "By.NAME", "By.LINK_TEXT", "By.PARTIAL_LINK_TEXT",
                "By.XPATH text()=", "By.XPATH contains(text())", "By.CSS_SELECTOR">>

Elements == {"e1", "e2"}

Exceptions == {"NoSuchElementException", "InvalidSelectorException"}

Pages == [1..Len(Strategies) -> Elements \cup Exceptions]

\* tries after the first k try blocks: append on return, pass on Exception
RECURSIVE Tries(_, _)
Tries(page, k) ==
    IF k = 0 THEN <<>>
    ELSE IF page[k] \in Elements
         THEN Append(Tries(page, k - 1), page[k])
         ELSE Tries(page, k - 1)

\* return tries[0]
PickLastTry(tries) == tries[Len(tries)]

PickTry(tries) == tries[1]

find_element_fuzzy(page, descriptor) ==
    IF ~Truthy(descriptor) THEN "None"
    ELSE LET tries == Tries(page, Len(Strategies))
         IN IF tries # <<>> THEN PickTry(tries) ELSE "None"

(***************************************************************************)
(* The Execution Engine: execute_script_text, one action per statement     *)
(* that touches the browser, and run_plan of the generated program, one    *)
(* action per step of the plan.                                            *)
(***************************************************************************)
Contains(seqn, c) == \E i \in 1..Len(seqn) : seqn[i] = c

\* a quote in {t} ends the literal of print('Could not find element ...: {t}')
BreaksPrint(step) ==
    /\ step.action \in {"click", "type"}
    /\ step.target.t = "str"
    /\ Contains(step.target.s, "'")

\* compile(script_text, "<generated>", "exec"): the pick_date line puts
\* "except" on the line of its "try:", which is no Python
Compiles(text) ==
    /\ text.origin # "syntax_error"
    /\ \A i \in 1..Len(text.plan) :
          /\ text.plan[i].action # "pick_date"
          /\ ~BreaksPrint(text.plan[i])

\* "run_plan" in ns after exec
DefinesRunPlan(text) == text.origin \in {"generated", "custom"}

\* lines 377-388: "error" (compile or exec raised), "no_run_plan", "ok"
LoadOutcomeUnchecked(text) ==
    IF ~Compiles(text) THEN "error" ELSE "ok"

LoadOutcome(text) ==
    IF ~Compiles(text) THEN "error"
    ELSE IF ~DefinesRunPlan(text) THEN "no_run_plan"
    ELSE "ok"

\* t or ''
OrEmpty(v) == IF Truthy(v) THEN v ELSE PyStr(<<>>)

\* One step of run_plan: what it does on a page where the browser call it
\* makes fails or not (fails), and the fallback it then tries fails or not
\* (fails2). "raise" leaves run_plan.
StepOutcome(step, page, fails, fails2) ==
    LET el == find_element_fuzzy(page, OrEmpty(step.target))
    IN CASE step.action = "open" ->
                IF fails THEN "raise" ELSE "opened"
         [] step.action = "click" ->
                IF el = "None" THEN "not_found"
                ELSE IF fails THEN "caught" ELSE "clicked"
         [] step.action = "type" ->
                IF el = "None"
                THEN IF fails THEN "caught" ELSE "typed_first_input"
                ELSE IF fails THEN "caught" ELSE "typed"
         [] step.action = "select" ->
                IF el = "None"
                THEN IF fails THEN "caught" ELSE "option_clicked"
                ELSE IF ~fails THEN "selected"
                     ELSE IF fails2 THEN "caught" ELSE "clicked"
         [] step.action = "wait" -> "slept"
         [] step.action = "submit" ->
                IF fails THEN "caught" ELSE "submitted"
         [] OTHER -> "printed"

PlanC == <<Step("select", PyStr(<<"c">>), PyStr(<<"x">>)), Step("wait", None, PyInt(5))>>
PlanD == <<Step("pick_date", PyStr(<<"d","a","t","e">>), None)>>

EngineTexts ==
    CacheTexts \cup
    {generate_script_from_plan(PlanC), generate_script_from_plan(PlanD),
     ForeignText("syntax_error"), ForeignText("no_run_plan"), ForeignText("custom")}

\* the pages a step of the engine meets
AllMiss == [k \in 1..Len(Strategies) |-> "NoSuchElementException"]
StepPages ==
    {AllMiss,
     [AllMiss EXCEPT ![1] = "e1", ![3] = "e2"],
     [AllMiss EXCEPT ![1] = "InvalidSelectorException", ![7] = "e2"]}

\* what a run_plan written by hand may return
ReturnValues == {PyTrue, PyFalse, None}

Ended(how, ok) == [how |-> how, ok |-> ok]

InitEngine ==
    /\ pc = "idle"
    /\ script = ForeignText("none")
    /\ headless = FALSE
    /\ session = "none"
    /\ ctorCalls = 0
    /\ quitCalls = 0
    /\ stepIdx = 0
    /\ steps = <<>>
    /\ entry = Ended("none", None)
    /\ success = "unset"
    /\ result = "none"

\* execute_script_text(script_text, headless) is entered
Enter(text, h) ==
    /\ script' = text
    /\ headless' = h
    /\ pc' = "load"
    /\ session' = "none"
    /\ ctorCalls' = 0
    /\ quitCalls' = 0
    /\ stepIdx' = 0
    /\ steps' = <<>>
    /\ entry' = Ended("none", None)
    /\ success' = "unset"
    /\ result' = "none"

\* execute_script_text(script_text, headless) is called
Run ==
    /\ pc \in {"idle", "returned"}
    /\ \E text \in EngineTexts, h \in BOOLEAN : Enter(text, h)
    /\ UNCHANGED <<cacheVars, locatorVars, parserVars, mainVars>>

\* lines 377-388
Load ==
    /\ pc = "load"
    /\ IF LoadOutcome(script) = "ok"
       THEN pc' = "create" /\ UNCHANGED result
       ELSE pc' = "returned" /\ result' = "False"
    /\ UNCHANGED <<script, headless, session, ctorCalls, quitCalls, stepIdx, steps,
                   entry, success, cacheVars, locatorVars, parserVars,
                   mainVars>>

\* lines 391-394: driver = webdriver.Firefox(options=opts), outside any try
CreateSession ==
    /\ pc = "create"
    /\ ctorCalls' = ctorCalls + 1
    /\ \E raised \in BOOLEAN :
          IF raised
          THEN pc' = "returned" /\ result' = "raised" /\ UNCHANGED <<session, stepIdx>>
          ELSE pc' = "run" /\ session' = "open" /\ stepIdx' = 1 /\ UNCHANGED result
    /\ UNCHANGED <<script, headless, quitCalls, steps, entry, success, cacheVars, locatorVars, parserVars,
                   mainVars>>

\* bool(ok), and the except branch
SuccessOf(how, ok) == IF how = "returned" /\ Truthy(ok) THEN "True" ELSE "False"

\* the steps of done that did not do what the step asks for
FailedSteps(done) == {k \in DOMAIN done : done[k] \in {"not_found", "caught"}}

\* "ok = True" ... "return ok" of the generated run_plan (lines 262, 320),
\* done the outcomes of its steps: no step assigns ok
PlanResultAllDone(done) == IF FailedSteps(done) = {} THEN PyTrue ELSE PyFalse

PlanResult(done) == PyTrue

\* lines 395-401 with run_plan of a generated program: one step of the plan,
\* or "return ok" after the last
RunStep ==
    /\ pc = "run"
    /\ DefinesRunPlan(script)
    /\ script.origin = "generated"
    /\ IF stepIdx > Len(script.plan)
       THEN /\ entry' = Ended("returned", PlanResult(steps))
            /\ success' = SuccessOf("returned", PlanResult(steps))
            /\ pc' = "quit"
            /\ UNCHANGED <<stepIdx, steps>>
       ELSE \E page \in StepPages, fails \in BOOLEAN, fails2 \in BOOLEAN :
              LET did == StepOutcome(script.plan[stepIdx], page, fails, fails2)
              IN IF did = "raise"
                 THEN /\ entry' = Ended("raised", None)
                      /\ success' = SuccessOf("raised", None)
                      /\ pc' = "quit"
                      /\ UNCHANGED <<stepIdx, steps>>
                 ELSE /\ steps' = Append(steps, did)
                      /\ stepIdx' = stepIdx + 1
                      /\ UNCHANGED <<entry, success, pc>>
    /\ UNCHANGED <<script, headless, session, ctorCalls, quitCalls, result, cacheVars, locatorVars, parserVars,
                   mainVars>>

\* lines 395-401 with any other text: ns["run_plan"] is a KeyError when the
\* text defines none; a run_plan written by hand returns a value or raises
RunForeign ==
    /\ pc = "run"
    /\ ~(DefinesRunPlan(script) /\ script.origin = "generated")
    /\ IF ~DefinesRunPlan(script)
       THEN entry' = Ended("raised", None) /\ success' = SuccessOf("raised", None)
       ELSE \/ entry' = Ended("raised", None) /\ success' = SuccessOf("raised", None)
            \/ \E ok \in ReturnValues :
                  entry' = Ended("returned", ok) /\ success' = SuccessOf("returned", ok)
    /\ pc' = "quit"
    /\ UNCHANGED <<script, headless, session, ctorCalls, quitCalls, stepIdx, steps,
                   result, cacheVars, locatorVars, parserVars,
                   mainVars>>

\* lines 402-406: finally: try: driver.quit() except Exception: pass
Quit ==
    /\ pc = "quit"
    /\ quitCalls' = quitCalls + 1
    /\ \E raised \in BOOLEAN :
          session' = IF raised THEN "quit_failed" ELSE "closed"
    /\ pc' = "return"
    /\ UNCHANGED <<script, headless, ctorCalls, stepIdx, steps, entry, success, result,
                   cacheVars, locatorVars, parserVars,
                   mainVars>>

\* what leaves execute_script_text after the finally block
ReturnedRaisingQuit(succ, sess) == IF sess = "quit_failed" THEN "raised" ELSE succ

Returned(succ, sess) == succ

\* line 407: return success
Return ==
    /\ pc = "return"
    /\ result' = Returned(success, session)
    /\ pc' = "returned"
    /\ UNCHANGED <<script, headless, session, ctorCalls, quitCalls, stepIdx, steps,
                   entry, success, cacheVars, locatorVars, parserVars,
                   mainVars>>


(***************************************************************************)
(* The Action Parser.                                                      *)
(***************************************************************************)
\* ACTION_KEYWORDS, in the order of the dict
ACTION_KEYWORDS == <<
    [action |-> "open", kw_list |-> <<<<"o", "p", "e", "n">>, <<"g", "o", " ", "t", "o">>, <<"v", "i", "s", "i", "t">>, <<"n", "a", "v", "i", "g", "a", "t", "e">>>>],
    [action |-> "click", kw_list |-> <<<<"c", "l", "i", "c", "k">>, <<"p", "r", "e", "s", "s">>, <<"t", "a", "p">>, <<"s", "e", "l", "e", "c", "t">>>>],
    [action |-> "type", kw_list |-> <<<<"t", "y", "p", "e">>, <<"e", "n", "t", "e", "r">>, <<"f", "i", "l", "l">>, <<"w", "r", "i", "t", "e">>>>],
    [action |-> "select", kw_list |-> <<<<"s", "e", "l", "e", "c", "t">>, <<"c", "h", "o", "o", "s", "e">>>>],
    [action |-> "wait", kw_list |-> <<<<"w", "a", "i", "t">>, <<"p", "a", "u", "s", "e">>, <<"s", "l", "e", "e", "p">>, <<"h", "o", "l", "d">>>>],
    [action |-> "login", kw_list |-> <<<<"l", "o", "g", "i", "n">>, <<"l", "o", "g", " ", "i", "n">>, <<"s", "i", "g", "n", " ", "i", "n">>>>],
    [action |-> "submit", kw_list |-> <<<<"s", "u", "b", "m", "i", "t">>, <<"s", "e", "n", "d">>, <<"c", "o", "n", "f", "i", "r", "m">>>>],
    [action |-> "pick_date", kw_list |-> <<<<"d", "a", "t", "e">>, <<"p", "i", "c", "k">>, <<"c", "h", "o", "o", "s", "e", " ", "d", "a", "t", "e">>, <<"s", "e", "l", "e", "c", "t", " ", "d", "a", "t", "e">>>>] >>

\* the (action, kw) pairs in the order the two for loops visit them
RECURSIVE KeywordPairs(_, _)
KeywordPairs(a, k) ==
    IF a > Len(ACTION_KEYWORDS) THEN <<>>
    ELSE IF k > Len(ACTION_KEYWORDS[a].kw_list) THEN KeywordPairs(a + 1, 1)
    ELSE <<[action |-> ACTION_KEYWORDS[a].action, kw |-> ACTION_KEYWORDS[a].kw_list[k]]>>
         \o KeywordPairs(a, k + 1)

Keywords == KeywordPairs(1, 1)

\* the index the remainder starts at: idx + len(kw), idx found in s
RemainderStart(s, kw) == Find(s, kw) + Len(kw)

\* find_action_verb(sentence) -> (action, remainder)
find_action_verb(sentence) ==
    LET s == Lower(sentence)
        hits == {p \in DOMAIN Keywords : In(Keywords[p].kw, s)}
    IN IF hits = {}
       THEN [action |-> "unknown", remainder |-> sentence]
       ELSE LET p == CHOOSE h \in hits : \A g \in hits : h <= g
                kw == Keywords[p].kw
            IN [action |-> Keywords[p].action,
                remainder |-> Strip(SliceFrom(sentence, RemainderStart(s, kw)))]

\* x or y
Or(x, y) == IF Truthy(x) THEN x ELSE y

Min(S) == CHOOSE x \in S : \A y \in S : x <= y
Max(S) == CHOOSE x \in S : \A y \in S : x >= y

IsQuote(c) == c \in {"\"", "'"}

\* [A-Za-z0-9 ._-]
IsLabelChar(c) ==
    \/ c \in Range(UpperCase) \cup Range(LowerCase) \cup Range(Digits)
    \/ c \in {" ", ".", "_", "-"}

\* [\w\.-]
IsMailChar(c) == IsWord(c) \/ c \in {".", "-"}

IsDateSep(c) == c \in {"/", "-"}
IsAsciiLetter(c) == c \in Range(UpperCase) \cup Range(LowerCase)
IsPunct(c) == c \in {",", ".", ";"}

\* the character classes of the regular expressions
InClass(c, class) ==
    CASE class = "\\d" -> IsDigit(c)
      [] class = "\\w" -> IsWord(c)
      [] class = "\\s" -> IsSpace(c)
      [] class = "\\S" -> ~IsSpace(c)
      [] class = "[A-Za-z]" -> IsAsciiLetter(c)
      [] class = "[A-Za-z0-9 ._-]" -> IsLabelChar(c)
      [] class = "[\\w\\.-]" -> IsMailChar(c)
      [] class = "[,.;]" -> IsPunct(c)

\* the length of the run of characters of a class that starts at index i (from 1)
RECURSIVE RunLen(_, _, _)
RunLen(str, i, class) ==
    IF i >= 1 /\ i <= Len(str) /\ InClass(str[i], class)
    THEN 1 + RunLen(str, i + 1, class) ELSE 0

\* re.search(r'["\'](.+?)["\']', s): group(1).strip() or None
extract_quoted(s) ==
    LET opens == {i \in 1..Len(s) :
                    IsQuote(s[i]) /\ \E j \in (i + 2)..Len(s) : IsQuote(s[j])}
    IN IF opens = {} THEN None
       ELSE LET i == Min(opens)
                j == Min({k \in (i + 2)..Len(s) : IsQuote(s[k])})
            IN PyStr(Strip(SubSeq(s, i + 1, j - 1)))

\* the length of group 2 of (["']?)([A-Za-z0-9 ._-]{2,80})\1 matched at i, 0 if no match
LabelMatch(s, i) ==
    IF IsQuote(s[i])
    THEN LET run == RunLen(s, i + 1, "[A-Za-z0-9 ._-]")
             fits == {n \in 2..Min({80, run}) : i + 1 + n <= Len(s) /\ s[i + 1 + n] = s[i]}
         IN IF 2 <= run /\ fits # {} THEN Max(fits) ELSE 0
    ELSE LET run == RunLen(s, i, "[A-Za-z0-9 ._-]")
         IN IF run >= 2 THEN Min({80, run}) ELSE 0

\* extract_label(s)
extract_label(s) ==
    LET q == extract_quoted(s)
        at == {i \in 1..Len(s) : LabelMatch(s, i) > 0}
    IN IF Truthy(q) THEN q
       ELSE IF at = {} THEN None
       ELSE LET i == Min(at)
                from == IF IsQuote(s[i]) THEN i + 1 ELSE i
            IN PyStr(Strip(SubSeq(s, from, from + LabelMatch(s, i) - 1)))

\* the length of [\w\.-]+@[\w\.-]+\.\w+ matched at i, 0 if no match
EmailMatch(s, i) ==
    LET a == RunLen(s, i, "[\\w\\.-]")
        at == i + a
        b == RunLen(s, at + 1, "[\\w\\.-]")
        dots == {x \in 1..(b - 2) : s[at + x + 1] = "." /\ IsWord(s[at + x + 2])}
    IN IF a >= 1 /\ at <= Len(s) /\ s[at] = "@" /\ dots # {}
       THEN LET x == Max(dots)
            IN a + 1 + x + 1 + RunLen(s, at + x + 2, "\\w")
       ELSE 0

\* extract_email(s)
extract_email(s) ==
    LET at == {i \in 1..Len(s) : EmailMatch(s, i) > 0}
    IN IF at = {} THEN None
       ELSE PyStr(SubSeq(s, Min(at), Min(at) + EmailMatch(s, Min(at)) - 1))

\* int() of a run of digits
RECURSIVE IntOf(_)
IntOf(digits) ==
    IF digits = <<>> THEN 0
    ELSE 10 * IntOf(SubSeq(digits, 1, Len(digits) - 1))
         + (CHOOSE d \in 0..9 : Digits[d + 1] = digits[Len(digits)])

\* extract_number(s): re.search(r'(\d+)', s)
extract_number(s) ==
    LET at == {i \in 1..Len(s) : IsDigit(s[i])}
    IN IF at = {} THEN None
       ELSE PyInt(IntOf(SubSeq(s, Min(at), Min(at) + RunLen(s, Min(at), "\\d") - 1)))

\* guess_value_from_sentence(sentence)
guess_value_from_sentence(sentence) ==
    LET parts == SplitWords(Strip(sentence))
    IN IF parts = <<>> THEN PyStr(<<>>) ELSE PyStr(Strip(parts[Len(parts)]))

TargetNames == <<<<"u", "s", "e", "r", "n", "a", "m", "e">>, <<"u", "s", "e", "r">>, <<"e", "m", "a", "i", "l">>, <<"p", "a", "s", "s", "w", "o", "r", "d">>, <<"s", "e", "a", "r", "c", "h">>,
                 <<"c", "o", "u", "n", "t", "r", "y">>, <<"e", "x", "a", "m">>, <<"d", "a", "t", "e">>>>

\* guess_target_from_sentence(sentence, remainder)
guess_target_from_sentence(sentence, remainder) ==
    LET s == Lower(sentence) \o <<" ">> \o Lower(remainder)
        named == {k \in DOMAIN TargetNames : In(TargetNames[k], s)}
    IN IF named # {} THEN PyStr(TargetNames[Min(named)])
       ELSE IF remainder # <<>> /\ Len(SplitWords(remainder)) <= 4
            THEN PyStr(Strip(remainder))
       ELSE None

\* the length of \d{1,2}[/-]\d{1,2}[/-]\d{2,4} matched at i, 0 if no match
NumericDateMatch(s, i) ==
    LET a == RunLen(s, i, "\\d")
        b == RunLen(s, i + a + 1, "\\d")
        c == RunLen(s, i + a + 1 + b + 1, "\\d")
    IN IF /\ a \in {1, 2} /\ i + a <= Len(s) /\ IsDateSep(s[i + a])
          /\ b \in {1, 2} /\ i + a + 1 + b <= Len(s) /\ IsDateSep(s[i + a + 1 + b])
          /\ c >= 2
       THEN a + 1 + b + 1 + Min({4, c})
       ELSE 0

\* the length of \d{1,2}\s+[A-Za-z]{3,9}\s*\d{0,4} matched at i, 0 if no match
NamedDateMatch(s, i) ==
    LET a == RunLen(s, i, "\\d")
        w == RunLen(s, i + a, "\\s")
        l == RunLen(s, i + a + w, "[A-Za-z]")
        m == Min({9, l})
        v == RunLen(s, i + a + w + m, "\\s")
        y == RunLen(s, i + a + w + m + v, "\\d")
    IN IF a \in {1, 2} /\ w >= 1 /\ l >= 3
       THEN a + w + m + v + Min({4, y})
       ELSE 0

\* find_date_in_text(s)
find_date_in_text(s) ==
    LET num == {i \in 1..Len(s) : NumericDateMatch(s, i) > 0}
        nam == {i \in 1..Len(s) : NamedDateMatch(s, i) > 0}
    IN IF num # {}
       THEN PyStr(SubSeq(s, Min(num), Min(num) + NumericDateMatch(s, Min(num)) - 1))
       ELSE IF nam # {}
       THEN PyStr(Strip(SubSeq(s, Min(nam), Min(nam) + NamedDateMatch(s, Min(nam)) - 1)))
       ELSE None

\* the length of (https?://\S+)|www\.\S+ matched at i, 0 if no match
UrlMatch(s, i) ==
    LET after(prefix) == RunLen(s, i + Len(prefix), "\\S")
        try(prefix) == IF OccursAt(s, prefix, i - 1) /\ after(prefix) >= 1
                       THEN Len(prefix) + after(prefix) ELSE 0
    IN IF try(<<"h", "t", "t", "p", "s", ":", "/", "/">>) > 0 THEN try(<<"h", "t", "t", "p", "s", ":", "/", "/">>)
       ELSE IF try(<<"h", "t", "t", "p", ":", "/", "/">>) > 0 THEN try(<<"h", "t", "t", "p", ":", "/", "/">>)
       ELSE try(<<"w", "w", "w", ".">>)

\* re.search(r'(https?://\S+)|www\.\S+', s): group(0) or None
UrlIn(s) ==
    LET at == {i \in 1..Len(s) : UrlMatch(s, i) > 0}
    IN IF at = {} THEN None
       ELSE PyStr(SubSeq(s, Min(at), Min(at) + UrlMatch(s, Min(at)) - 1))

\* \b before index i (from 1): a \w on one side only
WordBoundary(text, i) ==
    LET left == i - 1 >= 1 /\ i - 1 <= Len(text) /\ IsWord(text[i - 1])
        right == i >= 1 /\ i <= Len(text) /\ IsWord(text[i])
    IN left # right

SplitWordsOfRegex == <<<<"a", "n", "d">>, <<"t", "h", "e", "n">>, <<"a", "f", "t", "e", "r">>>>

WordAt(text, w, i) ==
    /\ OccursAt(text, w, i - 1)
    /\ WordBoundary(text, i)
    /\ WordBoundary(text, i + Len(w))

\* the length of [,.;]+|\band\b|\bthen\b|\bafter\b matched at i, 0 if no match
DelimiterMatch(text, i) ==
    IF IsPunct(text[i]) THEN RunLen(text, i, "[,.;]")
    ELSE LET ws == {k \in DOMAIN SplitWordsOfRegex : WordAt(text, SplitWordsOfRegex[k], i)}
         IN IF ws = {} THEN 0 ELSE Len(SplitWordsOfRegex[Min(ws)])

\* re.split(r'[,.;]+|\band\b|\bthen\b|\bafter\b', task_text): i scans, the
\* chunk in progress began at from
RECURSIVE ReSplit(_, _, _)
ReSplit(text, i, from) ==
    IF i > Len(text) THEN <<SubSeq(text, from, Len(text))>>
    ELSE LET n == DelimiterMatch(text, i)
         IN IF n > 0
            THEN <<SubSeq(text, from, i - 1)>> \o ReSplit(text, i + n, i + n)
            ELSE ReSplit(text, i + 1, from)

\* the action one chunk s = raw.strip() appends, lines 102-147: <<>> or one step
StepsOfChunk(s) ==
    LET verb == find_action_verb(s)
        act == verb.action
        rem == verb.remainder
    IN CASE act = "open" ->
              IF UrlIn(s) # None THEN <<Step("open", UrlIn(s), None)>> ELSE <<>>
         [] act = "click" ->
              <<Step("click", Or(extract_label(rem), Or(extract_label(s), PyStr(Strip(rem)))),
                     None)>>
         [] act = "type" ->
              LET value == Or(extract_quoted(rem),
                              Or(extract_email(rem), guess_value_from_sentence(s)))
                  target == guess_target_from_sentence(s, rem)
              IN IF Truthy(value) THEN <<Step("type", target, value)>>
                 ELSE <<Step("type", target, PyStr(Strip(rem)))>>
         [] act = "select" ->
              <<Step("select", guess_target_from_sentence(s, rem),
                     Or(extract_label(rem), PyStr(Strip(rem))))>>
         [] act = "pick_date" ->
              <<Step("pick_date", guess_target_from_sentence(s, rem), find_date_in_text(s))>>
         [] act = "wait" ->
              <<Step("wait", None, PyInt(Or(extract_number(rem), PyInt(2)).n))>>
         [] act \in {"submit", "login"} ->
              <<Step("submit", None, None)>>
         [] OTHER ->
              IF Contains(s, "@")
              THEN <<Step("type", PyStr(<<"e", "m", "a", "i", "l">>), extract_email(s))>>
              ELSE IF Len(SplitWords(s)) <= 4
                   THEN <<Step("click", PyStr(Strip(s)), None)>>
                   ELSE <<Step("type", None, PyStr(Strip(s)))>>

\* the chunks that are not empty once stripped, in order
RECURSIVE Clauses(_)
Clauses(chunks) ==
    IF chunks = <<>> THEN <<>>
    ELSE IF Strip(Head(chunks)) = <<>> THEN Clauses(Tail(chunks))
    ELSE <<Strip(Head(chunks))>> \o Clauses(Tail(chunks))

RECURSIVE StepsOfClauses(_)
StepsOfClauses(clauses) ==
    IF clauses = <<>> THEN <<>>
    ELSE StepsOfChunk(Head(clauses)) \o StepsOfClauses(Tail(clauses))

\* lines 91-94: Step 0, always open base URL (if provided)
SeedAlways(base) == <<Step("open", PyStr(base), None)>>

Seed(base) == IF base # <<>> THEN <<Step("open", PyStr(base), None)>> ELSE <<>>

\* plan before "compress consecutive opens"
RawPlan(task, base) == Seed(base) \o StepsOfClauses(Clauses(ReSplit(task, 1, 1)))

\* lines 149-153: the loop body, for action a with cleaned so far
KeepLatestOpen(cleaned, a) ==
    IF cleaned # <<>> /\ a.action = "open" /\ cleaned[Len(cleaned)].action = "open"
    THEN Append(SubSeq(cleaned, 1, Len(cleaned) - 1), a)
    ELSE Append(cleaned, a)

CompressStep(cleaned, a) ==
    IF cleaned # <<>> /\ a.action = "open" /\ cleaned[Len(cleaned)].action = "open"
    THEN cleaned
    ELSE Append(cleaned, a)

RECURSIVE Compress(_, _)
Compress(todo, cleaned) ==
    IF todo = <<>> THEN cleaned
    ELSE Compress(Tail(todo), CompressStep(cleaned, Head(todo)))

\* simple_plan_from_task(task_text, base_url)
simple_plan_from_task(task, base) == Compress(RawPlan(task, base), <<>>)


(***************************************************************************)
(* The inputs of the parser: the task texts made of at most MaxFragments   *)
(* of these fragments, and the base URLs.                                  *)
(***************************************************************************)
Fragments == {<<"o", "p", "e", "n", " ", "h", "t", "t", "p", ":", "/", "/", "b">>, <<",">>, <<"c", "l", "i", "c", "k", " ", "o", "k">>, <<" ", "a", "n", "d", " ">>, <<"I-dot">>,
              <<"E", "n", "t", "e", "r", " ">>, <<"c", "h", "o", "o", "s", "e">>, <<" ", "d", "a", "t", "e">>, <<"w", "a", "i", "t", " ", "5">>}

RECURSIVE TextsOf(_)
TextsOf(n) ==
    IF n = 0 THEN {<<>>}
    ELSE TextsOf(n - 1) \cup {t \o f : t \in TextsOf(n - 1), f \in Fragments}

BaseUrls == {<<>>, <<"h", "t", "t", "p", ":", "/", "/", "a">>}

\* the descriptors run_plan hands to the locator: '' and a target
Descriptors == {PyStr(<<>>), PyStr(<<"o", "k">>)}

InitLocator ==
    /\ locDescriptor = PyStr(<<>>)
    /\ locPage = AllMiss
    /\ locFound = "unset"

InitParser ==
    /\ inTask = <<>>
    /\ inBase = <<>>
    /\ parseDone = FALSE
    /\ parsedClauses = <<>>
    /\ parsedVerbs = <<>>
    /\ rawPlan = <<>>
    /\ parsedPlan = <<>>

\* the tasks typed into main_loop
MainTasks == {<<"c", "l", "i", "c", "k", " ", "o", "k">>, <<"w", "a", "i", "t", " ", "5">>}

\* main_loop before its first prompt
InitMain ==
    /\ mpc = "prompt"
    /\ mtask = <<>>
    /\ runs = [T \in MainTasks |-> 0]

Init == InitCache /\ InitEngine /\ InitLocator /\ InitParser /\ InitMain

Next == Upsert \/ RecordOutcome \/ Tick

Spec == Init /\ [][Next]_vars

NextEngine == Run \/ Load \/ CreateSession \/ RunStep \/ RunForeign \/ Quit \/ Return

SpecEngine == Init /\ [][NextEngine]_vars

\* find_element_fuzzy(driver, descriptor) is called on a page
Locate ==
    /\ locFound = "unset"
    /\ locFound' = find_element_fuzzy(locPage, locDescriptor)
    /\ UNCHANGED <<locDescriptor, locPage, cacheVars, engineVars, parserVars,
                   mainVars>>

InitLocatorInputs ==
    /\ locDescriptor \in Descriptors
    /\ locPage \in Pages
    /\ locFound = "unset"

InitLocate == InitCache /\ InitEngine /\ InitLocatorInputs /\ InitParser /\ InitMain

SpecLocator == InitLocate /\ [][Locate]_vars

RECURSIVE VerbsOf(_)
VerbsOf(cls) ==
    IF cls = <<>> THEN <<>> ELSE <<find_action_verb(Head(cls))>> \o VerbsOf(Tail(cls))

\* simple_plan_from_task(task_text, base_url) is called
Parse ==
    /\ ~parseDone
    /\ parseDone' = TRUE
    /\ parsedClauses' = Clauses(ReSplit(inTask, 1, 1))
    /\ parsedVerbs' = VerbsOf(Clauses(ReSplit(inTask, 1, 1)))
    /\ rawPlan' = RawPlan(inTask, inBase)
    /\ parsedPlan' = simple_plan_from_task(inTask, inBase)
    /\ UNCHANGED <<inTask, inBase, cacheVars, engineVars, locatorVars, mainVars>>

InitParserInputs ==
    /\ inTask \in TextsOf(MaxFragments)
    /\ inBase \in BaseUrls
    /\ parseDone = FALSE
    /\ parsedClauses = <<>>
    /\ parsedVerbs = <<>>
    /\ rawPlan = <<>>
    /\ parsedPlan = <<>>

InitParse == InitCache /\ InitEngine /\ InitLocator /\ InitParserInputs /\ InitMain

SpecParse == InitParse /\ [][Parse]_vars

(***************************************************************************)
(* Properties of the Learning Cache, under Spec. A step is a cache call    *)
(* when last.serial flips; rows is the table before it, rows' after it.    *)
(***************************************************************************)
CacheCall == last'.serial # last.serial

\* C1: after save_script_to_db(T, S) has written its row, the table holds
\* exactly one row for T, its script_text is S, and its success_count and
\* fail_count are those of the row T had before the call, 0 and 0 if it had
\* none.
C1_UpsertCarriesCounts ==
    [][(CacheCall /\ last'.op = "save" /\ last'.outcome = "ok") =>
        LET T == last'.task_text
            S == last'.script_text
        IN /\ Cardinality({r \in rows' : r.task_text = T}) = 1
           /\ \A r \in rows' : r.task_text = T =>
                /\ r.script_text = S
                /\ \A q \in rows : q.task_text = T =>
                      r.success_count = q.success_count /\ r.fail_count = q.fail_count
                /\ (~\E q \in rows : q.task_text = T) =>
                      r.success_count = 0 /\ r.fail_count = 0]_vars

\* a second save of a task whose row had one success recorded: the row
\* holds the saved text and still one success
C1_Witness ==
    /\ last.op = "save" /\ last.outcome = "ok"
    /\ \E r \in rows :
          /\ r.task_text = last.task_text /\ r.script_text = last.script_text
          /\ r.id > 1 /\ r.success_count = 1 /\ r.fail_count = 0
    /\ Cardinality(rows) = 1

\* C2: update_task_stats(T, success) on a table with a row for T adds exactly
\* 1 to success_count when success, to fail_count otherwise, and leaves the
\* other counter, script_text, script_path and the rows of all other tasks
\* as they were.
C2_RecordOutcomeAddsOne ==
    [][(CacheCall /\ last'.op = "stats" /\ last'.outcome = "ok"
            /\ \E q \in rows : q.task_text = last'.task_text) =>
        LET T == last'.task_text
        IN /\ Cardinality(rows') = Cardinality(rows)
           /\ \A q \in rows : q.task_text # T => q \in rows'
           /\ \A q \in rows : q.task_text = T =>
                \E r \in rows' :
                   /\ r.task_text = T /\ r.id = q.id
                   /\ r.script_text = q.script_text /\ r.script_path = q.script_path
                   /\ IF last'.success
                      THEN /\ r.success_count = q.success_count + 1
                           /\ r.fail_count = q.fail_count
                      ELSE /\ r.fail_count = q.fail_count + 1
                           /\ r.success_count = q.success_count]_vars

\* two successes recorded on a row: success_count 2, fail_count 0, beside
\* the row of another task
C2_Witness ==
    /\ last.op = "stats" /\ last.outcome = "ok" /\ last.success
    /\ \E r \in rows :
          r.task_text = last.task_text /\ r.success_count = 2 /\ r.fail_count = 0
    /\ \E r \in rows : r.task_text # last.task_text

\* C3: update_task_stats(T, success) on a table with no row for T leaves the
\* table as it was, whatever success is.
C3_RecordOutcomeUnknownTask ==
    [][(CacheCall /\ last'.op = "stats"
            /\ ~\E q \in rows : q.task_text = last'.task_text) =>
        rows' = rows]_vars

\* an outcome was recorded for a task that has no row, beside the row of
\* another task
C3_Witness ==
    /\ last.op = "stats" /\ last.outcome = "ok"
    /\ rows # {}
    /\ ~\E r \in rows : r.task_text = last.task_text

(***************************************************************************)
(* Properties of the Execution Engine, under SpecEngine.                   *)
(***************************************************************************)
\* C4: execute_script_text on a text that defines no run_plan never calls
\* webdriver.Firefox, and returns False.
C4_NoEntryPointNoSession ==
    script.origin = "no_run_plan" =>
        /\ ctorCalls = 0
        /\ session = "none"
        /\ pc = "returned" => result = "False"

\* a run of a text without run_plan has returned
C4_Witness == pc = "returned" /\ script.origin = "no_run_plan"

\* C5: for a text that loads and defines run_plan, execute_script_text calls
\* the constructor once and, the session created, calls quit on it exactly
\* once before it returns, whether run_plan returned a true value, a false
\* one or raised; the value returned is bool of what run_plan returned, False
\* if it raised, and is the same when quit raises.
C5_OneSessionClosedOnce ==
    LoadOutcome(script) = "ok" =>
        /\ ctorCalls <= 1 /\ quitCalls <= 1
        /\ pc \in {"run", "quit"} =>
              ctorCalls = 1 /\ quitCalls = 0 /\ session = "open"
        /\ pc \in {"return", "returned"} /\ session # "none" =>
              /\ ctorCalls = 1 /\ quitCalls = 1
              /\ session \in {"closed", "quit_failed"}
              /\ entry.how \in {"returned", "raised"}
        /\ pc = "returned" /\ session # "none" =>
              result = IF entry.how = "returned" /\ Truthy(entry.ok)
                       THEN "True" ELSE "False"

\* a run returned True although quit raised
C5_Witness ==
    /\ pc = "returned" /\ session = "quit_failed"
    /\ entry.how = "returned" /\ result = "True"

\* C6: in run_plan of a generated program no failure of a step leaves
\* run_plan: when run_plan has ended, it ended by returning, every step of
\* the plan attempted.
C6_StepFailuresStayLocal ==
    (script.origin = "generated" /\ entry.how # "none") =>
        /\ entry.how = "returned"
        /\ Len(steps) = Len(script.plan)

(***************************************************************************)
(* Properties of the Fuzzy Locator, under SpecLocator.                     *)
(***************************************************************************)
\* C7: for a descriptor that is not empty find_element_fuzzy returns what the
\* first locator that found an element found, in the order id, name, link
\* text, partial link text, exact text, contained text, css selector, a
\* locator that raises counting as one that found nothing; it returns None
\* exactly when none found an element.
C7_LocatorPriority ==
    (locFound # "unset" /\ Truthy(locDescriptor)) =>
        LET matched == {k \in 1..Len(Strategies) : locPage[k] \in Elements}
        IN IF matched = {} THEN locFound = "None"
           ELSE locFound = locPage[Min(matched)]

\* the descriptor is an id of one element and the link text of another, the
\* name locator raises: the element found by id is returned
C7_Witness ==
    /\ Truthy(locDescriptor)
    /\ locPage[1] = "e1" /\ locPage[2] = "InvalidSelectorException" /\ locPage[3] = "e2"
    /\ locFound = "e1"

(***************************************************************************)
(* Properties of the Action Parser, under SpecParse.                       *)
(***************************************************************************)
\* the actions of plan that are no open following an open, from index i on
RECURSIVE EarliestOfRuns(_, _)
EarliestOfRuns(raw, i) ==
    IF i > Len(raw) THEN <<>>
    ELSE (IF raw[i].action = "open" /\ i > 1 /\ raw[i - 1].action = "open"
          THEN <<>> ELSE <<raw[i]>>) \o EarliestOfRuns(raw, i + 1)

\* C8: the plan simple_plan_from_task returns starts with the open of
\* base_url when base_url is not empty, has no two adjacent opens, and is
\* the plan before compression with every run of opens cut down to its
\* earliest.
C8_PlanShape ==
    parseDone =>
        /\ inBase # <<>> =>
              parsedPlan # <<>> /\ parsedPlan[1] = Step("open", PyStr(inBase), None)
        /\ \A i \in 1..(Len(parsedPlan) - 1) :
              ~(parsedPlan[i].action = "open" /\ parsedPlan[i + 1].action = "open")
        /\ parsedPlan = EarliestOfRuns(rawPlan, 1)

\* [open(A), open(B), click(C)] became [open(A), click(C)], A the base URL
C8_Witness ==
    /\ parseDone /\ inBase # <<>>
    /\ Len(rawPlan) = 3
    /\ rawPlan[2].action = "open" /\ rawPlan[2].target # rawPlan[1].target
    /\ rawPlan[3].action = "click"
    /\ parsedPlan = <<rawPlan[1], rawPlan[3]>>

\* C9, as claimed: with an empty base_url the plan returned does not start
\* with an open action, whatever the task text.
C9_NoLeadingOpen ==
    (parseDone /\ inBase = <<>>) =>
        (parsedPlan = <<>> \/ parsedPlan[1].action # "open")

\* C9, amended: with an empty base_url no open is seeded; the plan is built
\* from the clauses alone, and it starts with an open only when the first
\* clause that yields an action is an open clause with a URL in it, the
\* target of the open.
C9_NoSeededOpen ==
    (parseDone /\ inBase = <<>>) =>
        /\ Len(rawPlan) <= Len(parsedClauses)
        /\ (parsedPlan # <<>> /\ parsedPlan[1].action = "open") =>
              \E k \in 1..Len(parsedClauses) :
                 /\ parsedVerbs[k].action = "open"
                 /\ UrlIn(parsedClauses[k]) # None
                 /\ parsedPlan[1].target = UrlIn(parsedClauses[k])
                 /\ \A j \in 1..(k - 1) : StepsOfChunk(parsedClauses[j]) = <<>>

\* no base URL, and the plan starts with the open of the URL of the task text
C9_Witness ==
    /\ parseDone /\ inBase = <<>>
    /\ Len(parsedPlan) >= 2
    /\ parsedPlan[1].action = "open"

\* kw occurs in the clause at index i (from 0), case apart
FoldedAt(clause, kw, i) ==
    /\ i + Len(kw) <= Len(clause)
    /\ \A j \in 1..Len(kw) : LowerChar(clause[i + j]) = <<kw[j]>>

\* C10: for every clause find_action_verb returns the kind of the first
\* phrase, in the order of ACTION_KEYWORDS, that occurs in the lowercased
\* clause, and as remainder the text of the clause after the first
\* occurrence of that phrase, in its own case, stripped; with no phrase in
\* the clause it returns unknown and the clause.
C10_VerbAndRemainder ==
    parseDone =>
        \A k \in 1..Len(parsedClauses) :
            LET c == parsedClauses[k]
                v == parsedVerbs[k]
                hits == {p \in DOMAIN Keywords : In(Keywords[p].kw, Lower(c))}
            IN IF hits = {}
               THEN v = [action |-> "unknown", remainder |-> c]
               ELSE LET kw == Keywords[Min(hits)].kw
                        occ == {i \in 0..Len(c) : FoldedAt(c, kw, i)}
                    IN /\ v.action = Keywords[Min(hits)].action
                       /\ occ # {}
                       /\ v.remainder = Strip(SliceFrom(c, Min(occ) + Len(kw)))

(***************************************************************************)
(* The wait clauses of the Action Parser, under SpecParseWait: the task    *)
(* texts are made of wait phrases, digits and a separator.                 *)
(***************************************************************************)
\* the texts made of at most n of the fragments frags
RECURSIVE TextsFrom(_, _)
TextsFrom(frags, n) ==
    IF n = 0 THEN {<<>>}
    ELSE TextsFrom(frags, n - 1) \cup {t \o f : t \in TextsFrom(frags, n - 1), f \in frags}

WaitFragments == {<<"w", "a", "i", "t">>, <<"w", "a", "i", "t", " ">>, <<"0">>, <<"5">>, <<" ", "s", "e", "c", "o", "n", "d", "s">>, <<",">>}

InitParserWaitInputs ==
    /\ inTask \in TextsFrom(WaitFragments, MaxFragments)
    /\ inBase \in BaseUrls
    /\ parseDone = FALSE
    /\ parsedClauses = <<>>
    /\ parsedVerbs = <<>>
    /\ rawPlan = <<>>
    /\ parsedPlan = <<>>

InitParseWait == InitCache /\ InitEngine /\ InitLocator /\ InitParserWaitInputs /\ InitMain

SpecParseWait == InitParseWait /\ [][Parse]_vars

\* C11: a clause whose kind is wait appends the action wait whose value is
\* the first integer found in the remainder, and 2 only when the remainder
\* holds no integer. Stated on the plans where every clause appended one
\* action, so that the k-th action after the seed is the k-th clause's.
C11_WaitValue ==
    (parseDone /\ Len(rawPlan) = Len(Seed(inBase)) + Len(parsedClauses)) =>
        \A k \in 1..Len(parsedClauses) :
            LET rem == parsedVerbs[k].remainder
                digitsAt == {i \in 1..Len(rem) : IsDigit(rem[i])}
                first == Min(digitsAt)
                n == IF digitsAt = {} THEN 2
                     ELSE IntOf(SubSeq(rem, first, first + RunLen(rem, first, "\\d") - 1))
            IN parsedVerbs[k].action = "wait" =>
                  rawPlan[Len(Seed(inBase)) + k] = Step("wait", None, PyInt(n))

(***************************************************************************)
(* The clauses of the Action Parser, under SpecParseSplit: the task texts  *)
(* are made of clauses, punctuation and the splitting words in both cases. *)
(***************************************************************************)
SplitFragments == {<<"c", "l", "i", "c", "k", " ", "a">>, <<" ", "a", "n", "d", " ">>, <<" ", "A", "N", "D", " ">>, <<",">>, <<";">>, <<" ", "T", "h", "e", "n", " ">>, <<"s", "a", "n", "d">>}

InitParserSplitInputs ==
    /\ inTask \in TextsFrom(SplitFragments, MaxFragments)
    /\ inBase \in BaseUrls
    /\ parseDone = FALSE
    /\ parsedClauses = <<>>
    /\ parsedVerbs = <<>>
    /\ rawPlan = <<>>
    /\ parsedPlan = <<>>

InitParseSplit == InitCache /\ InitEngine /\ InitLocator /\ InitParserSplitInputs /\ InitMain

SpecParseSplit == InitParseSplit /\ [][Parse]_vars

\* the word w stands at index i (from 1) of text, case apart, between word
\* boundaries
FoldedWordAt(text, w, i) ==
    /\ FoldedAt(text, w, i - 1)
    /\ WordBoundary(text, i)
    /\ WordBoundary(text, i + Len(w))

\* the length of the delimiter that starts at index i of text: one of , . ;
\* or one of the words and, then, after in any case; 0 if none does
FoldedDelimiter(text, i) ==
    IF IsPunct(text[i]) THEN 1
    ELSE LET ws == {k \in DOMAIN SplitWordsOfRegex :
                        FoldedWordAt(text, SplitWordsOfRegex[k], i)}
         IN IF ws = {} THEN 0 ELSE Len(SplitWordsOfRegex[Min(ws)])

\* the pieces of text between those delimiters
RECURSIVE FoldedSplit(_, _, _)
FoldedSplit(text, i, from) ==
    IF i > Len(text) THEN <<SubSeq(text, from, Len(text))>>
    ELSE LET n == FoldedDelimiter(text, i)
         IN IF n > 0
            THEN <<SubSeq(text, from, i - 1)>> \o FoldedSplit(text, i + n, i + n)
            ELSE FoldedSplit(text, i + 1, from)

\* the pieces that are not blank, stripped
RECURSIVE NonEmpty(_)
NonEmpty(pieces) ==
    IF pieces = <<>> THEN <<>>
    ELSE (IF Strip(Head(pieces)) = <<>> THEN <<>> ELSE <<Strip(Head(pieces))>>)
         \o NonEmpty(Tail(pieces))

\* C12: the clauses of a task text are the pieces between the delimiters
\* ',', '.', ';' and the standalone words and, then, after in any case (AND,
\* Then, After delimit too), the empty pieces dropped.
C12_ClausesAnyCase ==
    parseDone => parsedClauses = NonEmpty(FoldedSplit(inTask, 1, 1))

(***************************************************************************)
(* Failures at the boundary of the Execution Engine, under SpecEngine.     *)
(***************************************************************************)
\* C13: when the constructor of the browser session raises, the run ends by
\* returning False to its caller; the exception does not leave
\* execute_script_text.
C13_SessionFailureReturnsFalse ==
    (pc = "returned" /\ ctorCalls = 1 /\ session = "none") => result = "False"

(***************************************************************************)
(* The Learning Cache on a store that may fail, under SpecFaults: every    *)
(* call may meet a failing file write or a failing execute/commit.         *)
(***************************************************************************)
SaveFaults == {"none", "file", "db"}

StatsFaults == {"none", "db"}

UpsertOnFaults ==
    /\ \E T \in TaskTexts, S \in CacheTexts, fault \in SaveFaults :
          save_script_to_db(T, S, fault)
    /\ UNCHANGED mainVars

RecordOutcomeOnFaults ==
    /\ \E T \in TaskTexts, ok \in BOOLEAN, fault \in StatsFaults :
          update_task_stats(T, ok, fault)
    /\ UNCHANGED mainVars

NextFaults == UpsertOnFaults \/ RecordOutcomeOnFaults

SpecFaults == Init /\ [][NextFaults]_vars

\* C14: no call of save_script_to_db or update_task_stats ends by raising:
\* a failing file write, a failing insert and a failing update are caught
\* inside the call.
C14_StoreFailuresCaught ==
    last.op \in {"save", "stats"} => last.outcome \in {"ok", "db_error"}

(***************************************************************************)
(* The program files of the Learning Cache, under Spec.                    *)
(***************************************************************************)
\* C15: every save writes its program to a location that held no file
\* before it, whatever the clock shows, so the files of the earlier saves
\* stay as they were written.
C15_SaveWritesNewFile ==
    [][(CacheCall /\ last'.op = "save") =>
          /\ DOMAIN files' # DOMAIN files
          /\ \A p \in DOMAIN files : files'[p] = files[p]]_vars

\* C16: a run of a generated program that loads returns True whenever its
\* run_plan returned, however many of its steps found no element or had
\* their action fail; it returns False only when the program does not load
\* or define run_plan, or when an exception left run_plan.
C16_StepFailuresKeepSuccess ==
    (pc = "returned" /\ script.origin = "generated") =>
        /\ (LoadOutcome(script) = "ok" /\ entry.how = "returned") => result = "True"
        /\ result = "False" => (LoadOutcome(script) # "ok" \/ entry.how = "raised")

\* a run whose two steps both failed has returned True
C16_Witness ==
    /\ pc = "returned" /\ script.origin = "generated"
    /\ Len(steps) = 2 /\ FailedSteps(steps) = {1, 2}
    /\ result = "True"

\* C17: a program generated from a plan with a pick_date action loads, and a
\* run of it whose run_plan returned has performed every step of the plan,
\* the pick_date step among them.
C17_PickDateLoadsAndRuns ==
    (/\ pc = "returned" /\ script.origin = "generated"
     /\ \E k \in DOMAIN script.plan : script.plan[k].action = "pick_date") =>
        /\ LoadOutcome(script) = "ok"
        /\ entry.how = "returned" => Len(steps) = Len(script.plan)

(***************************************************************************)
(* main_loop, under SpecMain: one action per statement that calls the      *)
(* cache or the engine, the steps of the engine in between. An iteration   *)
(* with an empty task, or whose script is neither run nor saved, is back   *)
(* at the prompt with nothing changed. runs counts, per task, the calls of *)
(* execute_script_text that returned while the table held a row for it.    *)
(* The clock stands still: it only names the files and stamps last_used.   *)
(***************************************************************************)
\* what is typed at a (y/N) prompt, stripped and lowercased
Answers == {"y", "n", "r", ""}

\* existing = load_script_from_db(con, task); if existing:
Existing(T) == load_script_from_db(rows, T) # {}

\* plan = simple_plan_from_task(task, base_url);
\* script_text = generate_script_from_plan(plan, "temp"), for each input
MainScripts ==
    [T \in MainTasks, base_url \in BaseUrls |->
        generate_script_from_plan(simple_plan_from_task(T, base_url))]

\* exit or quit typed for the base URL or for the task
MainExit ==
    /\ mpc = "prompt"
    /\ mpc' = "exited"
    /\ UNCHANGED <<mtask, runs, cacheVars, engineVars, locatorVars, parserVars>>

\* the saved script is found and used: execute_script_text(script_text)
MainUseSaved ==
    /\ mpc = "prompt"
    /\ \E T \in MainTasks, ans \in Answers :
          /\ Existing(T) /\ ans = "y"
          /\ Enter((CHOOSE r \in load_script_from_db(rows, T) : TRUE).script_text, FALSE)
          /\ mtask' = T
    /\ mpc' = "running_saved"
    /\ UNCHANGED <<runs, cacheVars, locatorVars, parserVars>>

\* plan built and script generated, not run now, saved
MainSaveUnrun ==
    /\ mpc = "prompt"
    /\ \E T \in MainTasks, base_url \in BaseUrls, ans \in Answers, run_now \in Answers,
          save \in Answers :
          /\ Existing(T) => ans # "y"
          /\ run_now = "n" /\ save # "n"
          /\ save_script_to_db(T, MainScripts[T, base_url], "none")
          /\ mtask' = T
    /\ UNCHANGED <<mpc, runs>>

\* plan built and script generated, run now
MainRunNew ==
    /\ mpc = "prompt"
    /\ \E T \in MainTasks, base_url \in BaseUrls, ans \in Answers, run_now \in Answers,
          h \in BOOLEAN :
          /\ Existing(T) => ans # "y"
          /\ run_now # "n"
          /\ Enter(MainScripts[T, base_url], h)
          /\ mtask' = T
    /\ mpc' = "running_new"
    /\ UNCHANGED <<runs, cacheVars, locatorVars, parserVars>>

\* execute_script_text returned ok: update_task_stats(con, task, ok); the
\* script that was generated is saved next if ok, or if the user says so
MainRecord ==
    /\ mpc \in {"running_saved", "running_new"}
    /\ pc = "returned" /\ result \in {"True", "False"}
    /\ update_task_stats(mtask, result = "True", "none")
    /\ runs' = [runs EXCEPT ![mtask] = @ + (IF Existing(mtask) THEN 1 ELSE 0)]
    /\ \E save_choice \in Answers :
          mpc' = IF mpc = "running_saved" THEN "prompt"
                 ELSE IF result = "True" \/ save_choice = "y" THEN "save"
                 ELSE "prompt"
    /\ UNCHANGED mtask

\* save_script_to_db(con, task, script_text) after the run
MainSave ==
    /\ mpc = "save"
    /\ save_script_to_db(mtask, script, "none")
    /\ mpc' = "prompt"
    /\ UNCHANGED <<mtask, runs>>

\* execute_script_text raised: nothing in main_loop catches it
MainCrash ==
    /\ mpc \in {"running_saved", "running_new"}
    /\ pc = "returned" /\ result = "raised"
    /\ mpc' = "crashed"
    /\ UNCHANGED <<mtask, runs, cacheVars, engineVars, locatorVars, parserVars>>

NextMain ==
    \/ MainExit \/ MainUseSaved \/ MainSaveUnrun \/ MainRunNew
    \/ MainRecord \/ MainSave \/ MainCrash
    \/ Load \/ CreateSession \/ RunStep \/ Quit \/ Return

SpecMain == Init /\ [][NextMain]_vars

\* C18: for every task the success_count and fail_count of its row add up
\* to the number of runs of the task that returned while the table held a
\* row for it, and no row means no such run: a run of a task without a row
\* is recorded nowhere, its script being saved only after the update.
C18_CountsAreRunsOnRecord ==
    \A T \in MainTasks :
        IF Existing(T)
        THEN \A r \in load_script_from_db(rows, T) :
                r.success_count + r.fail_count = runs[T]
        ELSE runs[T] = 0

\* the first run of a task succeeded and its script was saved: the row has
\* both counts at 0
C18_Witness ==
    /\ mpc = "prompt" /\ pc = "returned" /\ result = "True" /\ seq = 1
    /\ runs[mtask] = 0
    /\ \E r \in rows :
          /\ r.task_text = mtask /\ r.script_text = script
          /\ r.success_count = 0 /\ r.fail_count = 0

====
